---- MODULE Spec2Model ----
(***************************************************************************)
(* Booking queue: one worker process runs three consumption loops          *)
(* (BullMQ lease queue, Redis Streams consumer group, Kafka consumer       *)
(* group).  Each loop is modelled from worker-service/src/index.ts, the    *)
(* producers from queue-service, the stream service and kafka-service.     *)
(***************************************************************************)
EXTENDS Integers, Sequences, FiniteSets, TLC

\* ------------------------------------------------------------------ bounds
NumWorkers == 2      \* worker processes sharing the brokers
NumSlots   == 1      \* timer callbacks of one worker that may be in progress together
MaxOverlap == 2      \* timer callbacks of one worker that exist
MaxEntries == 2      \* entries ever appended to booking-stream
MaxBacklog == 11     \* entries ever appended to booking-stream in a backlog
MaxCrashes == 1      \* worker crashes per run
MaxNames   == 3      \* distinct consumer names ever used
MaxFaults  == 1      \* broker calls that throw per run
MaxMsgs    == 2      \* messages ever published to booking-events
MaxJobs    == 1      \* jobs ever added to booking-queue
MaxBurst   == 11     \* jobs ever added to booking-queue in a burst
MaxBookings == 1     \* bookings ever created through the gateway
MaxTime    == 1      \* readings of the clock beyond the first

Workers == 1..NumWorkers
Slots   == 1..NumSlots
Threads == Workers \X Slots
Callbacks == Workers \X (1..MaxOverlap)
Ids     == 1..MaxEntries
BacklogIds == 1..MaxBacklog
KIds    == 1..MaxMsgs
JIds    == 1..MaxJobs
BurstIds == 1..MaxBurst

\* ------------------------------------------------------- program constants
STREAM_NAME    == "booking-stream"
CONSUMER_GROUP == "booking-workers"
DLQ_STREAM     == "booking-stream-dlq"
ReadCount      == 10     \* XREADGROUP COUNT
PendingCount   == 10     \* XPENDING count
MaxRetryCount  == 3      \* retryCount < 3
MaxAttempts    == 3      \* defaultJobOptions.attempts
TOPIC          == "booking-events"
DLQ_TOPIC      == "booking-events-dlq"
NumPartitions  == 3
Concurrency    == 5      \* Worker option concurrency
LimiterMax     == 10     \* Worker option limiter.max (per limiter.duration, 1000 ms)
BackoffDelay   == 2000   \* backoff.delay, ms
MaxStalledCount == 1     \* Worker option maxStalledCount (BullMQ default)
Partitions     == 0..(NumPartitions - 1)

NaN == -1                \* parseInt of a non-numeric string

\* Outcome of the k-th pipeline run of one booking: TRUE = all steps ran.
Patterns == {"S", "FS", "FFS", "FFF"}
Outcome(pat, k) ==
    CASE pat = "S"   -> TRUE
      [] pat = "FS"  -> k >= 2
      [] pat = "FFS" -> k >= 3
      [] OTHER       -> FALSE

\* ------------------------------------------------------------ pure helpers
Min(a, b) == IF a < b THEN a ELSE b

\* JSON.parse: these strings are the valid documents of the model.
MidOf  == <<"m1", "m2", "m3", "m4", "m5", "m6", "m7", "m8", "m9", "m10", "m11">>
BidOf  == <<"b1", "b2", "b3", "b4", "b5", "b6", "b7", "b8", "b9", "b10", "b11">>
JsonOf ==
    <<"{b1}", "{b2}", "{b3}", "{b4}", "{b5}", "{b6}", "{b7}", "{b8}", "{b9}", "{b10}", "{b11}">>
ValidJSON == {JsonOf[i] : i \in 1..Len(JsonOf)}
JSONParseOk(s) == s \in ValidJSON
JSONParse(s) ==
    LET i == CHOOSE k \in 1..Len(JsonOf) : JsonOf[k] = s
    IN  [messageId |-> MidOf[i], bookingId |-> BidOf[i]]

\* parseInt(s): decimal prefix or NaN.
parseInt(s) ==
    CASE s = "0" -> 0
      [] s = "1" -> 1
      [] s = "2" -> 2
      [] s = "3" -> 3
      [] OTHER   -> NaN

\* fields.find((f, i) => fields[i - 1] === key): the first element of the
\* flat field array whose predecessor equals key; "" stands for undefined
\* (both are falsy in the `|| default` that follows every use).
FindAfter(fields, key) ==
    LET hits == {i \in 2..Len(fields) : fields[i - 1] = key}
    IN  IF hits = {} THEN ""
        ELSE fields[CHOOSE i \in hits : \A j \in hits : i <= j]

\* messageData[fields[i]] = fields[i + 1] for i = 0, 2, 4, ...: the value of
\* the last pair whose name is key, "" when there is none (undefined).
FieldOf(fields, key) ==
    LET hits == {i \in 1..Len(fields) : i % 2 = 1 /\ i < Len(fields) /\ fields[i] = key}
    IN  IF hits = {} THEN ""
        ELSE fields[(CHOOSE i \in hits : \A j \in hits : i >= j) + 1]

\* ------------------------------------------------------------------- state
VARIABLES
    up,          \* up[w]: worker process w is running
    cname,       \* cname[w]: CONSUMER_NAME of worker w's current process
    names,       \* number of consumer names handed out so far
    crashes,     \* crashes so far
    faults,      \* broker calls that threw so far
    stream,      \* booking-stream: sequence of [fields, pat, origin]
    lastId,      \* last-delivered id of group booking-workers
    pel,         \* pending entries list: id -> [owner, idle beyond 60000 ms]
    sdlq,        \* booking-stream-dlq: sequence of records
    st,          \* st[<<w, s>>]: position of one stream loop iteration of worker w
    sRuns,       \* sRuns[e]: times a worker started processing entry e
    sDone,       \* sDone[e]: e was acknowledged after a successful run
    klog,        \* klog[p]: partition p of booking-events, [id, key, value, pat]
    committed,   \* committed[p]: committed offset of group booking-workers
    pos,         \* pos[p]: next offset the consumer assigned p will fetch
    owner,       \* owner[p]: the group member assigned p, 0 for nobody
    rebalance,   \* membership changed, the group has not rebalanced yet
    kdlq,        \* booking-events-dlq
    kst,         \* kst[w]: position of worker w's eachMessage handler
    kRuns,       \* kRuns[m]: times eachMessage was entered for message m
    kDone,       \* kDone[m]: eachMessage ran all five steps on message m
    frozen,      \* frozen[w]: the process of worker w is stalled (runs nothing)
    job,         \* job[j]: the job hash of booking-queue job j
    lease,       \* lease[w][j]: the lock worker w took on job j
    run,         \* run[w][j]: worker w's processor call on job j
    bookings,    \* responses of the gateway's create-booking operation
    now,         \* Date.now()
    results,     \* the BookingResults the processor returned, with the job id
    statuses,    \* the last response of the gateway's booking-status operation
    shutdown,    \* shutdown[w]: how far the SIGTERM handler of worker w has got
    exitCode,    \* exitCode[w]: code of the last process.exit of worker w, -1 for none
    reachable,   \* reachable[w]: the brokers worker w could connect to when it started
    window       \* jobs of booking-queue taken since the rate limiter's key was set

procVars   == <<up, cname, names, crashes, shutdown, exitCode, reachable>>
streamVars == <<stream, lastId, pel, sdlq, st, sRuns, sDone>>
kafkaVars  == <<klog, committed, pos, owner, rebalance, kdlq, kst, kRuns, kDone>>

leaseVars  == <<job, lease, run, window>>

vars == <<procVars, frozen, faults, streamVars, kafkaVars, leaseVars, bookings,
          now, results, statuses>>

nonStream == <<frozen, kafkaVars, leaseVars, bookings, now, results, statuses>>
nonKafka  == <<frozen, streamVars, leaseVars, bookings, now, results, statuses>>
nonLease  == <<faults, streamVars, kafkaVars, bookings, now, results, statuses>>

\* The brokers a worker connects to: Redis (lease queue and stream), Kafka.
Brokers == {"redis", "kafka"}

Running(w) == up[w] /\ ~frozen[w]

NoPel == [owner |-> 0, idle |-> FALSE]
KIdle == [pc |-> "idle", p |-> 0, off |-> 0, err |-> ""]
NoJob == [state |-> "none", attempts |-> 0, removeOnComplete |-> FALSE, pat |-> "S",
          attemptsMade |-> 0, stalledCounter |-> 0, delay |-> 0,
          delivered |-> 0, failedReason |-> "", returnvalue |-> 0]
NoRun == [step |-> -1, ok |-> FALSE]

\* The offset a group has for a partition it never committed on.
NoOffset == -1

\* The partitions of the topic dealt round-robin to the members of the group.
Assignment(members) ==
    LET n == Cardinality(members)
        Rank(w) == Cardinality({v \in members : v < w})
    IN  [p \in Partitions |->
            IF n = 0 THEN 0 ELSE CHOOSE w \in members : Rank(w) = p % n]
Idle  == [pc |-> "idle", batch |-> <<>>, pend |-> <<>>, ret |-> "main", err |-> ""]

Pending == {e \in BacklogIds : pel[e].owner # 0}

\* The brokers, the clients' bookkeeping and the processes' local state
\* before anything was produced.
InitBrokers ==
    /\ cname = [w \in Workers |-> w]
    /\ names = NumWorkers
    /\ crashes = 0
    /\ faults = 0
    /\ stream = <<>>
    /\ lastId = 0
    /\ pel = [e \in BacklogIds |-> NoPel]
    /\ sdlq = <<>>
    /\ st = [t \in Callbacks |-> Idle]
    /\ sRuns = [e \in BacklogIds |-> 0]
    /\ sDone = [e \in BacklogIds |-> FALSE]
    /\ klog = [p \in Partitions |-> <<>>]
    /\ pos = [p \in Partitions |-> 0]
    /\ rebalance = FALSE
    /\ kdlq = <<>>
    /\ kst = [w \in Workers |-> KIdle]
    /\ kRuns = [m \in KIds |-> 0]
    /\ kDone = [m \in KIds |-> FALSE]
    /\ frozen = [w \in Workers |-> FALSE]
    /\ job = [j \in BurstIds |-> NoJob]
    /\ lease = [w \in Workers |-> [j \in BurstIds |-> "none"]]
    /\ run = [w \in Workers |-> [j \in BurstIds |-> NoRun]]
    /\ window = 0
    /\ bookings = <<>>
    /\ now = 0
    /\ results = {}
    /\ statuses = <<>>
    /\ shutdown = [w \in Workers |-> "no"]
    /\ exitCode = [w \in Workers |-> -1]
    /\ reachable = [w \in Workers |-> Brokers]

\* Every worker process is up and subscribed while booking-events is still
\* empty: the group's offsets are at 0 on every partition.
Init ==
    /\ InitBrokers
    /\ up = [w \in Workers |-> TRUE]
    /\ committed = [p \in Partitions |-> 0]
    /\ owner = Assignment(Workers)

\* No worker process was started yet: the group booking-workers has no
\* member and no committed offset.
InitUnsubscribed ==
    /\ InitBrokers
    /\ up = [w \in Workers |-> FALSE]
    /\ committed = [p \in Partitions |-> NoOffset]
    /\ owner = [p \in Partitions |-> 0]

\* --------------------------------------------------------------- producers
\* type is the caller's string; with the outcome pattern of the booking.
PostKinds == {<<"booking", "S">>, <<"booking", "FFF">>, <<"retryCount", "S">>}

\* stream service, POST /messages: XADD booking-stream * type .. messageId ..
\* data JSON.stringify(message).  type is the caller's string.
StreamAdded(type, pat) ==
    LET e == Len(stream) + 1
    IN  Append(stream,
            [fields |-> <<"type", type, "messageId", MidOf[e], "data", JsonOf[e]>>,
             pat |-> pat, origin |-> "stream-service"])

StreamPost(type, pat) ==
    /\ Len(stream) < MaxEntries
    /\ stream' = StreamAdded(type, pat)
    /\ UNCHANGED <<nonStream, procVars, faults, lastId, pel, sdlq, st, sRuns, sDone>>

\* Entries of booking-stream written by any other client of the broker: the
\* worker reads a retryCount field and a data field of whatever it is given.
ForeignFields(e) ==
    { <<"type", "booking", "messageId", MidOf[e], "data", "{bad">>,
      <<"retryCount", "3", "type", "data", "data", "{bad">>,
      <<"type", "booking", "messageId", MidOf[e], "data", JsonOf[e], "retryCount", "3">> }

ForeignXadd(fields) ==
    /\ Len(stream) < MaxEntries
    /\ fields \in ForeignFields(Len(stream) + 1)
    /\ stream' = Append(stream, [fields |-> fields, pat |-> "FFF", origin |-> "other"])
    /\ UNCHANGED <<nonStream, procVars, faults, lastId, pel, sdlq, st, sRuns, sDone>>

\* ------------------------------------------------------ Redis Streams loop
Set(t, r) == [st EXCEPT ![t] = r]

\* Where control goes when processStreamMessages returns: to
\* processPendingMessages (timer callback) or back into its for loop.
ReturnTo(t) ==
    IF st[t].ret = "main"
    THEN [st[t] EXCEPT !.pc = "xpending", !.batch = <<>>, !.err = ""]
    ELSE [st[t] EXCEPT !.pc = "scan", !.batch = <<>>, !.err = ""]

\* The catch block that handles an exception thrown by the awaited call at
\* a site of the stream loop; without the function-level try blocks only
\* the one in the for loop of processStreamMessages is left.
HandlerInnerOnly(site) ==
    IF site = "xack" THEN "for-catch" ELSE "none"
Handler(site) ==
    CASE site = "xack"       -> "for-catch"      \* try in the for loop
      [] site = "xreadgroup" -> "stream-catch"   \* try of processStreamMessages
      [] site = "xadd"       -> "stream-catch"
      [] site = "dlqack"     -> "stream-catch"
      [] site = "xpending"   -> "pending-catch"  \* try of processPendingMessages
      [] site = "xclaim"     -> "pending-catch"

\* The position of a callback whose promise rejected: nothing handles it.
Unhandled == [pc |-> "unhandled", batch |-> <<>>, pend |-> <<>>, ret |-> "main", err |-> ""]

\* setInterval callback fires: processStreamMessages() is entered.
Timer(t) ==
    /\ Running(t[1])
    /\ st[t].pc = "idle"
    /\ st' = Set(t, [Idle EXCEPT !.pc = "xreadgroup"])
    /\ UNCHANGED <<nonStream, procVars, faults, stream, lastId, pel, sdlq, sRuns, sDone>>

\* A read after which the last entry it returned counts as never delivered.
LastDeliveredBehind(hi) == hi - 1

\* A read that leaves the last-delivered id of the group where it is.
LastDeliveredStuck(hi) == lastId

\* The last-delivered id of the group after a read with '>' that returned
\* the entries up to hi.
LastDelivered(hi) == hi

\* XREADGROUP GROUP booking-workers CONSUMER_NAME COUNT 10 STREAMS booking-stream >
\* : the never-delivered entries, which enter the pending list of the caller.
xreadgroup(t) ==
    /\ Running(t[1])
    /\ st[t].pc = "xreadgroup"
    /\ LET hi    == Min(Len(stream), lastId + ReadCount)
           batch == [i \in 1..(hi - lastId) |-> lastId + i]
       IN  IF batch = <<>>
           THEN /\ st' = Set(t, ReturnTo(t))
                /\ UNCHANGED <<lastId, pel>>
           ELSE /\ lastId' = LastDelivered(hi)
                /\ pel' = [e \in BacklogIds |->
                             IF e > lastId /\ e <= hi
                             THEN [owner |-> cname[t[1]], idle |-> FALSE]
                             ELSE pel[e]]
                /\ st' = Set(t, [st[t] EXCEPT !.pc = "msg", !.batch = batch])
    /\ UNCHANGED <<nonStream, procVars, faults, stream, sdlq, sRuns, sDone>>

\* Body of the for loop up to the acknowledge: parse the fields, JSON.parse
\* the data field, run the five steps.
forMessage(t) ==
    /\ Running(t[1])
    /\ st[t].pc = "msg"
    /\ IF st[t].batch = <<>>
       THEN /\ st' = Set(t, ReturnTo(t))
            /\ UNCHANGED sRuns
       ELSE LET e      == Head(st[t].batch)
                fields == stream[e].fields
                data   == FieldOf(fields, "data")
            IN  /\ sRuns' = [sRuns EXCEPT ![e] = @ + 1]
                /\ IF ~JSONParseOk(data)
                   THEN st' = Set(t, [st[t] EXCEPT !.pc = "catch", !.err = "parse"])
                   ELSE IF Outcome(stream[e].pat, sRuns[e] + 1)
                   THEN st' = Set(t, [st[t] EXCEPT !.pc = "xack"])
                   ELSE st' = Set(t, [st[t] EXCEPT !.pc = "catch", !.err = "step"])
    /\ UNCHANGED <<nonStream, procVars, faults, stream, lastId, pel, sdlq, sDone>>

NextMessage(t) == [st[t] EXCEPT !.pc = "msg", !.batch = Tail(@), !.err = ""]

\* await redisConnection.xack(...) after the five steps.
xack(t) ==
    /\ Running(t[1])
    /\ st[t].pc = "xack"
    /\ LET e == Head(st[t].batch)
       IN  /\ pel' = [pel EXCEPT ![e] = NoPel]
           /\ sDone' = [sDone EXCEPT ![e] = TRUE]
           /\ st' = Set(t, NextMessage(t))
    /\ UNCHANGED <<nonStream, procVars, faults, stream, lastId, sdlq, sRuns>>

\* The same call throws (broker error): control enters the catch block.
xackThrows(t) ==
    /\ Running(t[1])
    /\ st[t].pc = "xack"
    /\ faults < MaxFaults
    /\ faults' = faults + 1
    /\ st' = Set(t, IF Handler("xack") = "for-catch"
                     THEN [st[t] EXCEPT !.pc = "catch", !.err = "xack"]
                     ELSE Unhandled)
    /\ UNCHANGED <<nonStream, procVars, stream, lastId, pel, sdlq, sRuns, sDone>>

\* retryCount as the catch block computes it.
RetryCountOf(fields) ==
    LET retryCountField == FindAfter(fields, "retryCount")
    IN  parseInt(IF retryCountField = "" THEN "0" ELSE retryCountField)

WillRetry(fields) ==
    LET retryCount == RetryCountOf(fields)
    IN  retryCount # NaN /\ retryCount < MaxRetryCount

DlqRecord(e, fields, err) ==
    [originalMessageId |-> e,
     originalStream    |-> STREAM_NAME,
     error             |-> err,
     data              |-> FindAfter(fields, "data")]

\* A catch block that acknowledges the entry it gives up on for now.
catchForceAck(t) ==
    /\ Running(t[1])
    /\ st[t].pc = "catch"
    /\ LET e == Head(st[t].batch)
       IN  /\ pel' = [pel EXCEPT ![e] = NoPel]
           /\ st' = Set(t, NextMessage(t))
    /\ UNCHANGED <<nonStream, procVars, faults, stream, lastId, sdlq, sRuns, sDone>>

\* catch (error): below the threshold the entry is left pending, otherwise
\* XADD booking-stream-dlq.
catch(t) ==
    /\ Running(t[1])
    /\ st[t].pc = "catch"
    /\ LET e      == Head(st[t].batch)
           fields == stream[e].fields
       IN  IF WillRetry(fields)
           THEN /\ st' = Set(t, NextMessage(t))
                /\ UNCHANGED <<sdlq, faults>>
           ELSE /\ sdlq' = Append(sdlq, DlqRecord(e, fields, st[t].err))
                /\ st' = Set(t, [st[t] EXCEPT !.pc = "dlqack"])
    /\ UNCHANGED <<nonStream, procVars, faults, stream, lastId, pel, sRuns, sDone>>

\* The dead-letter XADD throws: the exception leaves the for loop and is
\* caught by the outer catch of processStreamMessages, which returns.
xaddThrows(t) ==
    /\ Running(t[1])
    /\ st[t].pc = "catch"
    /\ ~WillRetry(stream[Head(st[t].batch)].fields)
    /\ faults < MaxFaults
    /\ faults' = faults + 1
    /\ st' = Set(t, IF Handler("xadd") = "stream-catch" THEN ReturnTo(t) ELSE Unhandled)
    /\ UNCHANGED <<nonStream, procVars, stream, lastId, pel, sdlq, sRuns, sDone>>

\* await redisConnection.xack(...) after the dead-letter XADD.
dlqack(t) ==
    /\ Running(t[1])
    /\ st[t].pc = "dlqack"
    /\ LET e == Head(st[t].batch)
       IN  /\ pel' = [pel EXCEPT ![e] = NoPel]
           /\ st' = Set(t, NextMessage(t))
    /\ UNCHANGED <<nonStream, procVars, faults, stream, lastId, sdlq, sRuns, sDone>>

\* The same call throws: outer catch, processStreamMessages returns.
dlqackThrows(t) ==
    /\ Running(t[1])
    /\ st[t].pc = "dlqack"
    /\ faults < MaxFaults
    /\ faults' = faults + 1
    /\ st' = Set(t, IF Handler("dlqack") = "stream-catch" THEN ReturnTo(t) ELSE Unhandled)
    /\ UNCHANGED <<nonStream, procVars, stream, lastId, pel, sdlq, sRuns, sDone>>

\* if (parseInt(idleTime) > 60000 && consumer === CONSUMER_NAME)
Eligible(p, me) == p.idle /\ p.owner = me

\* XPENDING booking-stream booking-workers - + 10: the first ten pending
\* entries in id order.  Of [id, consumer, idle, deliveries] the loop reads
\* the id and the condition above, which is kept with the id.
PendingList(me) ==
    LET IsPending(e) == e \in Pending
        all == SelectSeq([i \in BacklogIds |-> i], IsPending)
        cut == SubSeq(all, 1, Min(Len(all), PendingCount))
    IN  [i \in 1..Len(cut) |-> [id |-> cut[i], eligible |-> Eligible(pel[cut[i]], me)]]

\* processPendingMessages is entered: XPENDING.
xpending(t) ==
    /\ Running(t[1])
    /\ st[t].pc = "xpending"
    /\ LET pending == PendingList(cname[t[1]])
       IN  IF pending = <<>>
           THEN st' = Set(t, Idle)
           ELSE st' = Set(t, [st[t] EXCEPT !.pc = "scan", !.pend = pending])
    /\ UNCHANGED <<nonStream, procVars, faults, stream, lastId, pel, sdlq, sRuns, sDone>>

\* One turn of the for loop of processPendingMessages: XCLAIM with min-idle
\* 60000 of an eligible entry, and after a claim processStreamMessages().
scan(t) ==
    /\ Running(t[1])
    /\ st[t].pc = "scan"
    /\ IF st[t].pend = <<>>
       THEN /\ st' = Set(t, Idle)
            /\ UNCHANGED pel
       ELSE LET p  == Head(st[t].pend)
                me == cname[t[1]]
            IN  IF p.eligible /\ p.id \in Pending /\ pel[p.id].idle
                THEN /\ pel' = [pel EXCEPT ![p.id] =
                                  [owner |-> me, idle |-> FALSE]]
                     /\ st' = Set(t, [st[t] EXCEPT !.pc = "xreadgroup", !.ret = "scan",
                                                   !.pend = Tail(@)])
                ELSE /\ st' = Set(t, [st[t] EXCEPT !.pend = Tail(@)])
                     /\ UNCHANGED pel
    /\ UNCHANGED <<nonStream, procVars, faults, stream, lastId, sdlq, sRuns, sDone>>

\* XREADGROUP throws: the catch of processStreamMessages logs it and the
\* function returns.
xreadgroupThrows(t) ==
    /\ Running(t[1])
    /\ st[t].pc = "xreadgroup"
    /\ faults < MaxFaults
    /\ faults' = faults + 1
    /\ st' = Set(t, IF Handler("xreadgroup") = "stream-catch" THEN ReturnTo(t) ELSE Unhandled)
    /\ UNCHANGED <<nonStream, procVars, stream, lastId, pel, sdlq, sRuns, sDone>>

\* XPENDING throws: the catch of processPendingMessages logs it and the
\* callback is over.
xpendingThrows(t) ==
    /\ Running(t[1])
    /\ st[t].pc = "xpending"
    /\ faults < MaxFaults
    /\ faults' = faults + 1
    /\ st' = Set(t, IF Handler("xpending") = "pending-catch" THEN Idle ELSE Unhandled)
    /\ UNCHANGED <<nonStream, procVars, stream, lastId, pel, sdlq, sRuns, sDone>>

\* XCLAIM of an eligible entry throws: the same catch, the rest of the
\* pending list is not looked at.
xclaimThrows(t) ==
    /\ Running(t[1])
    /\ st[t].pc = "scan"
    /\ st[t].pend # <<>>
    /\ Head(st[t].pend).eligible
    /\ faults < MaxFaults
    /\ faults' = faults + 1
    /\ st' = Set(t, IF Handler("xclaim") = "pending-catch" THEN Idle ELSE Unhandled)
    /\ UNCHANGED <<nonStream, procVars, stream, lastId, pel, sdlq, sRuns, sDone>>

\* Time passes: a pending entry has been idle for more than 60000 ms.
Tick(e) ==
    /\ e \in Pending
    /\ ~pel[e].idle
    /\ pel' = [pel EXCEPT ![e].idle = TRUE]
    /\ UNCHANGED <<nonStream, procVars, faults, stream, lastId, sdlq, st, sRuns, sDone>>

\* A minute passes: every pending entry has been idle for more than
\* 60000 ms.
TickAll ==
    /\ \E e \in Pending : ~pel[e].idle
    /\ pel' = [e \in BacklogIds |-> IF e \in Pending THEN [pel[e] EXCEPT !.idle = TRUE] ELSE pel[e]]
    /\ UNCHANGED <<nonStream, procVars, faults, stream, lastId, sdlq, st, sRuns, sDone>>

\* A backlog of bookings: POST /messages while entries are pending.
StreamBacklog(type, pat) ==
    /\ Len(stream) < MaxBacklog
    /\ stream' = StreamAdded(type, pat)
    /\ UNCHANGED <<nonStream, procVars, faults, lastId, pel, sdlq, st, sRuns, sDone>>

\* --------------------------------------------------------- queue-service
\* POST /jobs: bookingQueue.add(type, data, {jobId, ...options}) over
\* defaultJobOptions.  The gateway sends attempts 3 and removeOnComplete
\* true; without options the completed job is kept (for an hour).
JobOptions == { [attempts |-> MaxAttempts, removeOnComplete |-> FALSE],
                [attempts |-> MaxAttempts, removeOnComplete |-> TRUE] }

Added == Cardinality({j \in BurstIds : job[j].state # "none"})

QueueAdded(options, pat) ==
    [job EXCEPT ![Added + 1] =
        [NoJob EXCEPT !.state = "wait", !.attempts = options.attempts,
                      !.removeOnComplete = options.removeOnComplete,
                      !.pat = pat]]

QueuePost(options, pat) ==
    /\ Added < MaxJobs
    /\ job' = QueueAdded(options, pat)
    /\ UNCHANGED <<nonLease, procVars, frozen, lease, run, window>>

\* removeOnComplete: true deletes the record of a job once it is completed;
\* GET /jobs/:jobId then answers 404.
Removed(j) == job[j].state = "completed" /\ job[j].removeOnComplete

\* -------------------------------------------------------------- BullMQ loop
ProgressSeqEarly100 == <<10, 30, 50, 100, 90, 80>>
ProgressSeq == <<10, 30, 50, 80, 90, 100>>

Pow2(n) == IF n <= 0 THEN 1 ELSE 2 ^ n

\* backoff {type: 'fixed', delay: 2000}.
BackoffFixed(attemptsMade) == BackoffDelay

\* backoff {type: 'exponential', delay: 2000} after attemptsMade failures:
\* 2s, 4s, 8s.
Backoff(attemptsMade) == Pow2(attemptsMade - 1) * BackoffDelay

InFlight(w) == {j \in BurstIds : run[w][j].step >= 0}

Locked(j) == \E w \in Workers : lease[w][j] = "valid"

\* A worker that takes every waiting job at once.
MayTakeAlways(inFlight, taken) == TRUE

\* concurrency: 5 and limiter {max: 10, duration: 1000}: a worker takes a
\* job while it runs fewer than 5 and while fewer than 10 jobs were taken
\* since the limiter's key was set.
MayTake(inFlight, taken) == inFlight < Concurrency /\ taken < LimiterMax

\* The limiter's key expires, duration ms after the first job counted.
limiterExpire ==
    /\ window > 0
    /\ window' = 0
    /\ UNCHANGED <<nonLease, procVars, frozen, job, lease, run>>

\* A burst of bookings: POST /jobs while jobs are waiting.
QueueBurst(options, pat) ==
    /\ Added < MaxBurst
    /\ job' = QueueAdded(options, pat)
    /\ UNCHANGED <<nonLease, procVars, frozen, lease, run, window>>

\* The worker takes the next waiting job: the job becomes active under a
\* lock with the worker's token, and the processor is called.
Acquire(w, j) ==
    /\ Running(w)
    /\ shutdown[w] = "no"
    /\ job[j].state = "wait"
    /\ run[w][j] = NoRun
    /\ MayTake(Cardinality(InFlight(w)), window)
    /\ window' = window + 1
    /\ job' = [job EXCEPT ![j].state = "active", ![j].delivered = @ + 1]
    /\ lease' = [lease EXCEPT ![w][j] = "valid"]
    /\ run' = [run EXCEPT ![w][j] =
                 [step |-> 0, ok |-> Outcome(job[j].pat, job[j].delivered + 1)]]
    /\ UNCHANGED <<nonLease, procVars, frozen>>

\* await job.updateProgress(10 | 30 | 50 | 80 | 90 | 100) and the work
\* after it; a call that will throw does not get to updateProgress(100).
updateProgress(w, j) ==
    /\ Running(w)
    /\ run[w][j].step >= 0
    /\ run[w][j].step < (IF run[w][j].ok THEN 6 ELSE 5)
    /\ run' = [run EXCEPT ![w][j].step = @ + 1]
    /\ UNCHANGED <<nonLease, procVars, frozen, lease, job, window>>

\* result: {bookingId, status: 'confirmed', confirmedAt,
\*          confirmationNumber: `CONF-${Date.now()}`, workerId}
BookingResult(j, w, t) ==
    [bookingId |-> BidOf[j], status |-> "confirmed",
     confirmationNumber |-> <<"CONF-", t>>, workerId |-> w]

\* The processor returns the BookingResult: the job moves to completed if
\* the worker still holds its lock, otherwise the move is rejected and the
\* job is left as it is.
Complete(w, j) ==
    /\ Running(w)
    /\ run[w][j].step = 6
    /\ results' = results \cup {[jobId |-> j, result |-> BookingResult(j, w, now)]}
    /\ run' = [run EXCEPT ![w][j] = NoRun]
    /\ lease' = [lease EXCEPT ![w][j] = "none"]
    /\ IF lease[w][j] = "valid"
       THEN job' = [job EXCEPT
                ![j].state = "completed",
                ![j].attemptsMade = @ + 1,
                ![j].returnvalue = w]
       ELSE UNCHANGED job
    /\ UNCHANGED <<faults, streamVars, kafkaVars, bookings, now, procVars, frozen,
                   statuses, window>>

\* The clock moves on.
Tock ==
    /\ now < MaxTime
    /\ now' = now + 1
    /\ UNCHANGED <<procVars, frozen, faults, streamVars, kafkaVars, leaseVars,
                   bookings, results, statuses>>

\* The processor's catch block ends in `throw err`.
RethrowsSwallowed == FALSE
Rethrows == TRUE

\* attempts: 3: a failed job is retried while it has made fewer attempts.
RetryAllowedOffByOne(made, attempts) == made + 1 < attempts
RetryAllowed(made, attempts) == made < attempts

\* A step throws: with the rethrow the job moves to delayed with the backoff
\* delay while attempts remain, otherwise to failed.
Fail(w, j) ==
    /\ Running(w)
    /\ run[w][j].step >= 0
    /\ ~run[w][j].ok
    /\ run' = [run EXCEPT ![w][j] = NoRun]
    /\ lease' = [lease EXCEPT ![w][j] = "none"]
    /\ IF lease[w][j] # "valid"
       THEN UNCHANGED job
       ELSE IF ~Rethrows
       THEN job' = [job EXCEPT
                ![j].state = "completed",
                ![j].attemptsMade = @ + 1]
       ELSE LET made  == job[j].attemptsMade + 1
                retry == RetryAllowed(made, job[j].attempts)
            IN  job' = [job EXCEPT
                   ![j].attemptsMade = made,
                   ![j].failedReason = "error",
                   ![j].state = IF retry THEN "delayed" ELSE "failed",
                   ![j].delay = IF retry THEN Backoff(made) ELSE 0]
    /\ UNCHANGED <<nonLease, procVars, frozen, window>>

\* The backoff delay of a delayed job has elapsed.
Promote(j) ==
    /\ job[j].state = "delayed"
    /\ job' = [job EXCEPT ![j].state = "wait", ![j].delay = 0]
    /\ UNCHANGED <<nonLease, procVars, frozen, lease, run, window>>

\* The lock of a job is renewed by the process that runs it: it is not
\* renewed while that process is stalled or after it went down (a restarted
\* worker is another process), and runs out.
LockExpire(w, j) ==
    /\ lease[w][j] = "valid"
    /\ ~Running(w) \/ run[w][j] = NoRun
    /\ lease' = [lease EXCEPT ![w][j] = IF run[w][j] = NoRun THEN "none" ELSE "expired"]
    /\ UNCHANGED <<nonLease, procVars, frozen, job, run, window>>

\* Stalled-job check of a running worker: an active job without a lock goes
\* back to wait, or to failed once it stalled more than maxStalledCount times.
StalledNoLockCheck(j) == job[j].state = "active"
StalledNever(j) == FALSE
Stalled(j) == job[j].state = "active" /\ ~Locked(j)

StalledCheck(j) ==
    /\ \E w \in Workers : Running(w)
    /\ Stalled(j)
    /\ LET stalled == job[j].stalledCounter + 1
       IN  job' = [job EXCEPT
              ![j].stalledCounter = stalled,
              ![j].state = IF stalled > MaxStalledCount THEN "failed" ELSE "wait",
              ![j].failedReason = IF stalled > MaxStalledCount THEN "stalled" ELSE @]
    /\ UNCHANGED <<nonLease, procVars, frozen, lease, run, window>>

\* The process of a worker stalls (it runs nothing, renews no lock), and
\* later goes on where it was.
Freeze(w) ==
    /\ Running(w)
    /\ \E v \in Workers \ {w} : Running(v)
    /\ crashes < MaxCrashes
    /\ crashes' = crashes + 1
    /\ frozen' = [frozen EXCEPT ![w] = TRUE]
    /\ UNCHANGED <<up, cname, names, faults, streamVars, kafkaVars, leaseVars, bookings,
                   now, results, statuses, shutdown, exitCode, reachable>>

Resume(w) ==
    /\ up[w]
    /\ frozen[w]
    /\ frozen' = [frozen EXCEPT ![w] = FALSE]
    /\ UNCHANGED <<procVars, faults, streamVars, kafkaVars, leaseVars, bookings,
                   now, results, statuses>>

\* ------------------------------------------------------- kafka-service
\* parseInt(c, 16) of one character.
HexDigit(c) ==
    CASE c = "0" -> 0  [] c = "1" -> 1  [] c = "2" -> 2  [] c = "3" -> 3
      [] c = "4" -> 4  [] c = "5" -> 5  [] c = "6" -> 6  [] c = "7" -> 7
      [] c = "8" -> 8  [] c = "9" -> 9  [] c = "a" -> 10 [] c = "b" -> 11
      [] c = "c" -> 12 [] c = "d" -> 13 [] c = "e" -> 14 [] c = "f" -> 15
      [] OTHER -> NaN

\* data.bookingId ? parseInt(data.bookingId.slice(-1), 16) % 3
\*                 : Math.floor(Math.random() * 3)
\* as the set of partitions the expression can yield; a bookingId is a
\* sequence of characters.
PartitionsOfRandom(bookingId) == Partitions
PartitionsOf(bookingId) ==
    IF bookingId = <<>> THEN Partitions
    ELSE LET d == HexDigit(bookingId[Len(bookingId)])
         IN  IF d = NaN THEN {NaN} ELSE {d % NumPartitions}

BookingIds == {<<>>, <<"b", "f">>, <<"b", "1">>}

Published == Len(klog[0]) + Len(klog[1]) + Len(klog[2])

\* The messages of booking-events as [partition, offset, message].
Logged == {<<p, o>> \in Partitions \X (0..(MaxMsgs - 1)) : o < Len(klog[p])}

MessageAt(po) == klog[po[1]][po[2] + 1]

\* kafka-service, POST /messages: producer.send to the chosen partition with
\* key messageId and value JSON.stringify(message).
KafkaSent(p, bookingId, pat) ==
    LET m == Published + 1
    IN  [klog EXCEPT ![p] =
            Append(@, [id |-> m, key |-> MidOf[m], value |-> JsonOf[m],
                       bookingId |-> bookingId, pat |-> pat])]

KafkaPost(bookingId, pat) ==
    /\ Published < MaxMsgs
    /\ \E p \in PartitionsOf(bookingId) :
          /\ p \in Partitions
          /\ klog' = KafkaSent(p, bookingId, pat)
    /\ UNCHANGED <<nonKafka, procVars, faults,
                   committed, pos, owner, rebalance, kdlq, kst, kRuns, kDone>>

\* ------------------------------------------------------------ api-service
Backends == {"bullmq", "redisStreams", "kafka"}

GatewayOptions == [attempts |-> MaxAttempts, removeOnComplete |-> TRUE]

\* message of the error a rejected axios.post carries.
AxiosError == "Request failed"

\* A response that reports every backend by the outcome of the whole batch.
QueueResponseAllOrNothing(failed, backend, id) ==
    IF failed # {}
    THEN [status |-> "error", id |-> 0, error |-> AxiosError]
    ELSE [status |-> "queued", id |-> id, error |-> ""]

\* result.status === 'fulfilled' ? {jobId | messageId, status: 'queued'}
\*                               : {error: reason.message, status: 'error'}
QueueResponse(failed, backend, id) ==
    IF backend \in failed
    THEN [status |-> "error", id |-> 0, error |-> AxiosError]
    ELSE [status |-> "queued", id |-> id, error |-> ""]

\* createBookings: the booking is posted to the three services in parallel
\* (Promise.allSettled); `failed` are the posts that reject.  The response
\* has, per backend, the id the service returned, or 0 with status 'error'.
createBookings(bookingId, pat, failed) ==
    /\ Len(bookings) < MaxBookings
    /\ Added < MaxJobs /\ Len(stream) < MaxEntries /\ Published < MaxMsgs
    /\ bookingId # <<>>
    /\ job' = IF "bullmq" \in failed THEN job ELSE QueueAdded(GatewayOptions, pat)
    /\ stream' = IF "redisStreams" \in failed THEN stream ELSE StreamAdded("booking", pat)
    /\ \E p \in PartitionsOf(bookingId) :
          /\ p \in Partitions
          /\ klog' = IF "kafka" \in failed THEN klog ELSE KafkaSent(p, bookingId, pat)
    /\ bookings' = Append(bookings,
          [status       |-> 201,
           pat          |-> pat,
           bullmq       |-> IF "bullmq" \in failed THEN 0 ELSE Added + 1,
           redisStreams |-> IF "redisStreams" \in failed THEN 0 ELSE Len(stream) + 1,
           kafka        |-> IF "kafka" \in failed THEN 0 ELSE Published + 1,
           bookingId    |-> bookingId,
           failed       |-> failed,
           queues       |->
              [bullmq       |-> QueueResponse(failed, "bullmq", Added + 1),
               redisStreams |-> QueueResponse(failed, "redisStreams", Len(stream) + 1),
               kafka        |-> QueueResponse(failed, "kafka", Published + 1)]])
    /\ UNCHANGED <<procVars, frozen, faults, lease, run, window, now, results, statuses>>
    /\ UNCHANGED <<lastId, pel, sdlq, st, sRuns, sDone>>
    /\ UNCHANGED <<committed, pos, owner, rebalance, kdlq, kst, kRuns, kDone>>

\* The id in GET /api/bookings/:bookingId/status: the gateway's bookingId,
\* or the id one of the services gave its record (each is a fresh uuid).
StatusIds == [kind : {"bookingId", "jobId", "streamMessageId", "kafkaMessageId"},
              n : 1..MaxEntries]

\* null in a response.
Null == [null |-> TRUE]

\* queue-service, GET /jobs/:jobId: bookingQueue.getJob(jobId), 404 when
\* there is no such job, otherwise the JobStatus.
JobStatus(id) ==
    IF id.kind = "jobId" /\ id.n \in JIds /\ job[id.n].state # "none" /\ ~Removed(id.n)
    THEN [state        |-> job[id.n].state,
          attemptsMade |-> job[id.n].attemptsMade,
          failedReason |-> job[id.n].failedReason,
          returnvalue  |-> job[id.n].returnvalue]
    ELSE Null

\* stream service, GET /messages/:messageId: the first entry of XRANGE whose
\* data parses and has this messageId, 404 when there is none.
StreamMessageStatus(id) ==
    LET found == {e \in 1..Len(stream) :
                    /\ id.kind = "streamMessageId"
                    /\ JSONParseOk(FindAfter(stream[e].fields, "data"))
                    /\ JSONParse(FindAfter(stream[e].fields, "data")).messageId = MidOf[id.n]}
    IN  IF found = {} THEN Null
        ELSE [streamId |-> CHOOSE e \in found : \A d \in found : e <= d,
              status   |-> "found"]

\* kafka-service, GET /messages/:messageId: messageStore.get(messageId), 404
\* when the store has no metadata for it.
KafkaMessageStatus(id) ==
    LET found == {x \in Logged : id.kind = "kafkaMessageId" /\ MessageAt(x).id = id.n}
    IN  IF found = {} THEN Null
        ELSE LET x == CHOOSE y \in found : TRUE
             IN  [partition |-> x[1], offset |-> x[2], status |-> "queued"]

\* A status that is null as soon as any of the three requests failed.
SettledDataAnyFailed(down, backend, data) == IF down # {} THEN Null ELSE data

\* axios.get(...).catch(() => ({data: null})) under Promise.allSettled, then
\* status === 'fulfilled' ? value.data : null.  A request fails when the
\* service is down (`down`) or answers 404 (data is Null already).
SettledData(down, backend, data) == IF backend \in down THEN Null ELSE data

\* getBookingStatus: res.json({bookingId, status: {bullmq, redisStreams, kafka}}).
getBookingStatus(id, down) ==
    /\ statuses' = << [status |-> 200, bookingId |-> id, down |-> down,
                       bullmq       |-> SettledData(down, "bullmq", JobStatus(id)),
                       redisStreams |-> SettledData(down, "redisStreams", StreamMessageStatus(id)),
                       kafka        |-> SettledData(down, "kafka", KafkaMessageStatus(id))] >>
    /\ UNCHANGED <<procVars, frozen, faults, streamVars, kafkaVars, leaseVars, bookings,
                   now, results>>

\* ------------------------------------------------------------- Kafka loop
Live == {w \in Workers : up[w]}

\* subscribe({ fromBeginning: false }): a partition without a committed
\* offset is read from the latest offset, the end of the log at that time.
ResolvedOffset(p) == IF committed[p] = NoOffset THEN Len(klog[p]) ELSE committed[p]

\* The group rebalances after a member left or joined: the live members
\* rejoin between two messages, and every partition is read again from its
\* committed offset.
Rebalance ==
    /\ rebalance
    /\ \A w \in Live : kst[w].pc = "idle"
    /\ owner' = Assignment(Live)
    /\ pos' = [p \in Partitions |-> ResolvedOffset(p)]
    /\ rebalance' = FALSE
    /\ UNCHANGED <<nonKafka, procVars, faults, klog, committed, kdlq, kst, kRuns, kDone>>

\* A consumer that reads a partition whoever it is assigned to.
kFetchAny(w, p) ==
    /\ Running(w)
    /\ kst[w].pc = "idle"
    /\ pos[p] < Len(klog[p])
    /\ kst' = [kst EXCEPT ![w] = [pc |-> "try", p |-> p, off |-> pos[p], err |-> ""]]
    /\ UNCHANGED <<nonKafka, procVars, faults,
                   klog, committed, pos, owner, rebalance, kdlq, kRuns, kDone>>

\* A consumer that does not go past a message that was not processed.
kFetchBlocked(w, p) ==
    /\ Running(w)
    /\ kst[w].pc = "idle"
    /\ owner[p] = w
    /\ pos[p] < Len(klog[p])
    /\ IF pos[p] = 0 THEN TRUE ELSE kDone[klog[p][pos[p]].id]
    /\ kst' = [kst EXCEPT ![w] = [pc |-> "try", p |-> p, off |-> pos[p], err |-> ""]]
    /\ UNCHANGED <<nonKafka, procVars, faults,
                   klog, committed, pos, owner, rebalance, kdlq, kRuns, kDone>>

\* consumer.run hands the next message of an assigned partition to
\* eachMessage, one message at a time per worker.
kFetch(w, p) ==
    /\ Running(w)
    /\ shutdown[w] # "disconnect"
    /\ kst[w].pc = "idle"
    /\ owner[p] = w
    /\ pos[p] < Len(klog[p])
    /\ kst' = [kst EXCEPT ![w] = [pc |-> "try", p |-> p, off |-> pos[p], err |-> ""]]
    /\ UNCHANGED <<nonKafka, procVars, faults,
                   klog, committed, pos, owner, rebalance, kdlq, kRuns, kDone>>

Message(w) == klog[kst[w].p][kst[w].off + 1]

\* try block of eachMessage: JSON.parse(message.value) and the five steps.
eachMessage(w) ==
    /\ Running(w)
    /\ kst[w].pc = "try"
    /\ LET m == Message(w)
       IN  /\ kRuns' = [kRuns EXCEPT ![m.id] = @ + 1]
           /\ IF ~JSONParseOk(m.value)
              THEN /\ kst' = [kst EXCEPT ![w].pc = "catch", ![w].err = "parse"]
                   /\ UNCHANGED kDone
              ELSE IF Outcome(m.pat, kRuns[m.id] + 1)
              THEN /\ kst' = [kst EXCEPT ![w].pc = "return"]
                   /\ kDone' = [kDone EXCEPT ![m.id] = TRUE]
              ELSE /\ kst' = [kst EXCEPT ![w].pc = "catch", ![w].err = "step"]
                   /\ UNCHANGED kDone
    /\ UNCHANGED <<nonKafka, procVars, faults,
                   klog, committed, pos, owner, rebalance, kdlq>>

KafkaDlqRecord(w) ==
    LET m == Message(w)
    IN  [key |-> m.key, value |-> m.value,
         original_topic |-> TOPIC, original_partition |-> kst[w].p,
         original_offset |-> kst[w].off, error |-> kst[w].err]

\* catch block of eachMessage: producer.send to booking-events-dlq.
dlqSend(w) ==
    /\ Running(w)
    /\ kst[w].pc = "catch"
    /\ kdlq' = Append(kdlq, KafkaDlqRecord(w))
    /\ kst' = [kst EXCEPT ![w].pc = "return"]
    /\ UNCHANGED <<nonKafka, procVars, faults,
                   klog, committed, pos, owner, rebalance, kRuns, kDone>>

\* producer.send throws: the nested catch logs it.
dlqSendThrows(w) ==
    /\ Running(w)
    /\ kst[w].pc = "catch"
    /\ faults < MaxFaults
    /\ faults' = faults + 1
    /\ kst' = [kst EXCEPT ![w].pc = "return"]
    /\ UNCHANGED <<nonKafka, procVars,
                   klog, committed, pos, owner, rebalance, kdlq, kRuns, kDone>>

\* eachMessage returns without throwing on every path: the runner resolves
\* the offset of the message.
kReturn(w) ==
    /\ Running(w)
    /\ kst[w].pc = "return"
    /\ pos' = [pos EXCEPT ![kst[w].p] = kst[w].off + 1]
    /\ kst' = [kst EXCEPT ![w] = KIdle]
    /\ UNCHANGED <<nonKafka, procVars, faults,
                   klog, committed, owner, rebalance, kdlq, kRuns, kDone>>

\* A commit of the offset after the next one to resolve.
kCommitAhead(p) ==
    /\ owner[p] # 0
    /\ Running(owner[p])
    /\ committed[p] < Len(klog[p])
    /\ committed' = [committed EXCEPT ![p] = @ + 1]
    /\ UNCHANGED <<nonKafka, procVars, faults,
                   klog, pos, owner, rebalance, kdlq, kst, kRuns, kDone>>

\* autoCommit: the resolved offset of a partition is committed for the group.
kCommit(p) ==
    /\ owner[p] # 0
    /\ Running(owner[p])
    /\ committed[p] < pos[p]
    /\ committed' = [committed EXCEPT ![p] = pos[p]]
    /\ UNCHANGED <<nonKafka, procVars, faults,
                   klog, pos, owner, rebalance, kdlq, kst, kRuns, kDone>>

\* ---------------------------------------------------------- worker process
\* The process dies: every callback in progress is gone with it.  Some
\* other worker of the deployment stays up.
Crash(w) ==
    /\ up[w]
    /\ \E v \in Workers \ {w} : Running(v)
    /\ crashes < MaxCrashes
    /\ crashes' = crashes + 1
    /\ up' = [up EXCEPT ![w] = FALSE]
    /\ st' = [t \in Callbacks |-> IF t[1] = w THEN Idle ELSE st[t]]
    /\ kst' = [kst EXCEPT ![w] = KIdle]
    /\ rebalance' = TRUE
    /\ frozen' = [frozen EXCEPT ![w] = FALSE]
    /\ run' = [run EXCEPT ![w] = [j \in BurstIds |-> NoRun]]
    /\ UNCHANGED <<cname, names, faults, stream, lastId, pel, sdlq, sRuns, sDone>>
    /\ UNCHANGED <<klog, committed, pos, owner, kdlq, kRuns, kDone, job, lease, window,
                   bookings, now, results, statuses, shutdown, exitCode, reachable>>

\* process.on('SIGTERM'): the handler awaits bullmqWorker.close(), which
\* takes no new job and resolves when the jobs in progress are over.
SIGTERM(w) ==
    /\ Running(w)
    /\ shutdown[w] = "no"
    /\ shutdown' = [shutdown EXCEPT ![w] = "close"]
    /\ UNCHANGED <<up, cname, names, crashes, exitCode, reachable, frozen, faults,
                   streamVars, kafkaVars, leaseVars, bookings, now, results, statuses>>

\* bullmqWorker.close() resolves: the handler awaits consumer.disconnect(),
\* which hands out no new message and resolves when eachMessage returned.
closeResolves(w) ==
    /\ Running(w)
    /\ shutdown[w] = "close"
    /\ \A j \in BurstIds : run[w][j] = NoRun
    /\ shutdown' = [shutdown EXCEPT ![w] = "disconnect"]
    /\ UNCHANGED <<up, cname, names, crashes, exitCode, reachable, frozen, faults,
                   streamVars, kafkaVars, leaseVars, bookings, now, results, statuses>>

\* consumer.disconnect() resolves (the member leaves the group), then
\* redisConnection.quit() and process.exit(0): the stream timer, which was
\* never cleared, and its callbacks in progress end with the process.
exit(w) ==
    /\ Running(w)
    /\ shutdown[w] = "disconnect"
    /\ kst[w].pc = "idle"
    /\ up' = [up EXCEPT ![w] = FALSE]
    /\ exitCode' = [exitCode EXCEPT ![w] = 0]
    /\ st' = [t \in Callbacks |-> IF t[1] = w THEN Idle ELSE st[t]]
    /\ rebalance' = TRUE
    /\ UNCHANGED <<cname, names, crashes, shutdown, reachable, frozen, faults>>
    /\ UNCHANGED <<stream, lastId, pel, sdlq, sRuns, sDone>>
    /\ UNCHANGED <<klog, committed, pos, owner, kdlq, kst, kRuns, kDone>>
    /\ UNCHANGED <<leaseVars, bookings, now, results, statuses>>

\* The process is started again.  WORKER_ID = process.env.WORKER_ID ||
\* `worker-${Date.now()}`: the old name when the variable is set, otherwise
\* a name no process had before.
Restart(w) ==
    /\ ~up[w]
    /\ up' = [up EXCEPT ![w] = TRUE]
    /\ \/ UNCHANGED <<cname, names>>
       \/ /\ names < MaxNames
          /\ names' = names + 1
          /\ cname' = [cname EXCEPT ![w] = names + 1]
    /\ rebalance' = TRUE
    /\ shutdown' = [shutdown EXCEPT ![w] = "no"]
    /\ reachable' = [reachable EXCEPT ![w] = Brokers]
    /\ exitCode' = [exitCode EXCEPT ![w] = -1]
    /\ UNCHANGED <<crashes, frozen, faults, streamVars, leaseVars, bookings,
                   now, results, statuses>>
    /\ UNCHANGED <<klog, committed, pos, owner, kdlq, kst, kRuns, kDone>>

\* The process is started while it can connect only to the brokers in
\* `reach`.  start() awaits startStreamsWorker(), whose XGROUP CREATE does
\* not return while Redis cannot be reached, and then startKafkaWorker(),
\* whose consumer.connect() rejects when Kafka cannot be reached: the
\* rejection goes to start().catch, which calls process.exit(1), and the
\* BullMQ worker and the stream timer started before it end with the
\* process.  A process that waits for Redis runs no loop and stays as it is.
start(w, reach) ==
    /\ ~up[w]
    /\ reach # Brokers
    /\ reachable' = [reachable EXCEPT ![w] = reach]
    /\ exitCode' = [exitCode EXCEPT ![w] =
                       IF "redis" \in reach /\ "kafka" \notin reach THEN 1 ELSE -1]
    /\ UNCHANGED <<up, cname, names, crashes, shutdown, frozen, faults, streamVars,
                   kafkaVars, leaseVars, bookings, now, results, statuses>>

\* ------------------------------------------------------------ specification
StreamStep(t) ==
    \/ Timer(t)
    \/ xreadgroup(t)
    \/ forMessage(t)
    \/ xack(t)
    \/ catch(t)
    \/ dlqack(t)
    \/ xpending(t)
    \/ scan(t)

NextStream ==
    \/ \E k \in PostKinds : StreamPost(k[1], k[2])
    \/ \E f \in UNION {ForeignFields(e) : e \in Ids} : ForeignXadd(f)
    \/ \E t \in Threads : StreamStep(t)
    \/ \E e \in Ids : Tick(e)
    \/ \E w \in Workers : Crash(w)
    \/ \E w \in Workers : Restart(w)

SpecStream == Init /\ [][NextStream]_vars

\* The stream loop with broker calls that may throw.
NextStreamFaulty ==
    \/ NextStream
    \/ \E t \in Threads : xackThrows(t)
    \/ \E t \in Threads : xaddThrows(t)
    \/ \E t \in Threads : dlqackThrows(t)

SpecStreamFaulty == Init /\ [][NextStreamFaulty]_vars

KafkaStep(w) ==
    \/ \E p \in Partitions : kFetch(w, p)
    \/ eachMessage(w)
    \/ dlqSend(w)
    \/ dlqSendThrows(w)
    \/ kReturn(w)

NextKafka ==
    \/ \E b \in BookingIds, pat \in {"S", "FFF"} : KafkaPost(b, pat)
    \/ \E w \in Workers : KafkaStep(w)
    \/ \E p \in Partitions : kCommit(p)
    \/ Rebalance
    \/ \E w \in Workers : Crash(w)
    \/ \E w \in Workers : Restart(w)

SpecKafka == Init /\ [][NextKafka]_vars

\* Every running consumer keeps taking steps, the group completes its
\* rebalances, offsets get committed.  Nothing is assumed about producers,
\* crashes or restarts.
FairKafka ==
    /\ \A w \in Workers : WF_vars(KafkaStep(w))
    /\ \A p \in Partitions : WF_vars(kCommit(p))
    /\ WF_vars(Rebalance)

SpecKafkaFair == SpecKafka /\ FairKafka

LeaseStep(w, j) ==
    \/ Acquire(w, j)
    \/ updateProgress(w, j)
    \/ Complete(w, j)
    \/ Fail(w, j)
    \/ LockExpire(w, j)

NextLease ==
    \/ \E o \in JobOptions, pat \in Patterns : QueuePost(o, pat)
    \/ \E w \in Workers, j \in JIds : LeaseStep(w, j)
    \/ \E j \in JIds : Promote(j)
    \/ \E j \in JIds : StalledCheck(j)
    \/ \E w \in Workers : Freeze(w)
    \/ \E w \in Workers : Resume(w)
    \/ \E w \in Workers : Crash(w)
    \/ \E w \in Workers : Restart(w)
    \/ Tock

SpecLease == Init /\ [][NextLease]_vars

\* A running worker takes waiting jobs, its awaited calls return, delays
\* elapse, locks that are not renewed run out, and the stalled-job check
\* keeps running.  Nothing is assumed about stalls, crashes or restarts.
FairLease ==
    /\ \A w \in Workers, j \in JIds : WF_vars(LeaseStep(w, j))
    /\ \A j \in JIds : WF_vars(Promote(j))
    /\ \A j \in JIds : WF_vars(StalledCheck(j))

SpecLeaseFair == SpecLease /\ FairLease

\* One worker and the gateway: the same booking on the three backends.
NextGateway ==
    \/ \E b \in BookingIds, pat \in Patterns, failed \in SUBSET Backends :
          createBookings(b, pat, failed)
    \/ \E w \in Workers, j \in JIds :
          Acquire(w, j) \/ updateProgress(w, j) \/ Complete(w, j) \/ Fail(w, j)
    \/ \E j \in JIds : Promote(j)
    \/ \E t \in Threads :
          \/ Timer(t) \/ xreadgroup(t) \/ forMessage(t) \/ xack(t)
          \/ catch(t) \/ xpending(t) \/ scan(t)
    \/ \E e \in Ids : Tick(e)
    \/ \E w \in Workers, p \in Partitions : kFetch(w, p)
    \/ \E w \in Workers : eachMessage(w) \/ dlqSend(w) \/ kReturn(w)
    \/ \E p \in Partitions : kCommit(p)

SpecGateway == Init /\ [][NextGateway]_vars

\* The timer keeps firing, every awaited call returns, time passes.  Nothing
\* is assumed about producers, crashes or restarts.
FairStream ==
    /\ \A t \in Threads : WF_vars(StreamStep(t))
    /\ \A e \in Ids : WF_vars(Tick(e))

SpecStreamFair == SpecStream /\ FairStream

\* The stream loop with no worker ever going down.
NextStreamSteady ==
    \/ \E k \in PostKinds : StreamPost(k[1], k[2])
    \/ \E f \in UNION {ForeignFields(e) : e \in Ids} : ForeignXadd(f)
    \/ \E t \in Threads : StreamStep(t)
    \/ \E e \in Ids : Tick(e)

SpecStreamSteadyFair == Init /\ [][NextStreamSteady]_vars /\ FairStream

\* ------------------------------------------------------------------ claims
InBatch(e) == \E t \in Threads : \E i \in 1..Len(st[t].batch) : st[t].batch[i] = e

\* Entry e was delivered to a worker that is down now, and was not
\* acknowledged.
CrashedHolding(e) ==
    /\ e \in Pending
    /\ ~InBatch(e)
    /\ \E w \in Workers : ~up[w] /\ pel[e].owner = cname[w]

InStreamDlq(e) == \E i \in 1..Len(sdlq) : sdlq[i].originalMessageId = e

\* C1: an entry whose receiving worker crashed before acknowledging it is
\* eventually processed again and leaves the pending list (acknowledged as
\* completed or dead-lettered).
C1_AtLeastOnce ==
    \A e \in Ids : [](CrashedHolding(e) => <>(e \notin Pending /\ sRuns[e] >= 1))

\* C2: an entry appended by the stream service whose run fails on every
\* delivery is eventually dead-lettered and acknowledged, after 3 failed runs.
C2_StreamBoundedRetries ==
    \A e \in Ids :
        [](( /\ e <= Len(stream)
             /\ stream[e].origin = "stream-service"
             /\ stream[e].pat = "FFF"
             /\ sRuns[e] >= 1 )
           => <>(InStreamDlq(e) /\ e \notin Pending /\ sRuns[e] = MaxRetryCount))

\* The dead-letter records of message m of booking-events, found by the
\* original partition and offset in their headers.
KafkaDlqOf(m) ==
    {i \in 1..Len(kdlq) :
        LET r == kdlq[i]
        IN  /\ r.original_offset < Len(klog[r.original_partition])
            /\ klog[r.original_partition][r.original_offset + 1].id = m}

StreamDlqOf(e) == {i \in 1..Len(sdlq) : sdlq[i].originalMessageId = e}

\* C4: a message of booking-events has a dead-letter record only after
\* exactly maxAttempts = 3 processing attempts.
C4_KafkaBoundedRetries ==
    \A m \in KIds : KafkaDlqOf(m) # {} => kRuns[m] = MaxAttempts

\* C7: at most one dead-letter record per original entry or message on each
\* backend's dead-letter channel.
C7_DlqExactlyOnce ==
    /\ \A e \in Ids : Cardinality(StreamDlqOf(e)) <= 1
    /\ \A m \in KIds : Cardinality(KafkaDlqOf(m)) <= 1

\* C8: every dead-letter record carries the original identity and channel
\* and the unmodified payload: the data field of the stream entry, the key
\* and value of the Kafka message.
C8_DlqPreservesOriginal ==
    /\ \A i \in 1..Len(sdlq) :
          LET r == sdlq[i]
          IN  /\ r.originalMessageId \in 1..Len(stream)
              /\ r.originalStream = STREAM_NAME
              /\ r.error # ""
              /\ r.data = FieldOf(stream[r.originalMessageId].fields, "data")
    /\ \A i \in 1..Len(kdlq) :
          LET r == kdlq[i]
          IN  /\ r.original_topic = TOPIC
              /\ r.original_partition \in Partitions
              /\ r.original_offset < Len(klog[r.original_partition])
              /\ r.key = klog[r.original_partition][r.original_offset + 1].key
              /\ r.value = klog[r.original_partition][r.original_offset + 1].value

\* ------------------------------------------------------ lease-queue claims
Finished(j) == job[j].state = "completed"

\* No delivery of job j ended in a stall (a lock that ran out).
NeverStalled(j) ==
    /\ job[j].stalledCounter = 0
    /\ \A w \in Workers : lease[w][j] # "expired"

FreshJob(j, pat) ==
    /\ job[j].state = "wait" /\ job[j].delivered = 0
    /\ job[j].pat = pat /\ job[j].attempts = MaxAttempts

\* C3: a job with attempts = 3 whose processor throws on every delivery is
\* delivered at most 3 times, waits for a retry with attemptsMade equal to
\* the failures so far (1 or 2) and the backoff delay, is failed exactly
\* when the 3rd delivery has failed, never completes, and does end failed
\* (unless a holder of it stalls).
C3_Safe(j) ==
    (job[j].pat = "FFF" /\ job[j].attempts = MaxAttempts /\ job[j].stalledCounter = 0)
    => /\ job[j].delivered <= MaxAttempts
       /\ ~Finished(j)
       /\ job[j].state = "failed"
             => job[j].delivered = MaxAttempts /\ job[j].attemptsMade = MaxAttempts
       /\ job[j].state = "delayed"
             => /\ job[j].attemptsMade = job[j].delivered
                /\ job[j].attemptsMade \in 1..(MaxAttempts - 1)
                /\ job[j].delay = Backoff(job[j].attemptsMade)
       /\ job[j].state = "wait" => job[j].attemptsMade = job[j].delivered
       /\ job[j].state = "active" /\ NeverStalled(j) /\ Locked(j)
             => job[j].attemptsMade = job[j].delivered - 1

C6_Safe(j) ==
    (job[j].pat = "FFS" /\ job[j].attempts = MaxAttempts /\ job[j].stalledCounter = 0)
    => /\ job[j].state # "failed"
       /\ Finished(j) => job[j].attemptsMade = 3 /\ job[j].delivered = 3

C9_LeaseMutualExclusion ==
    \A j \in JIds : Cardinality({w \in Workers : lease[w][j] = "valid"}) <= 1

\* Two workers are in the processor for the same job: one lock ran out, the
\* other worker took the job after it.
C9_Witness ==
    \E j \in JIds : \E w, v \in Workers :
        /\ lease[w][j] = "expired" /\ run[w][j].step >= 0 /\ Running(w)
        /\ lease[v][j] = "valid" /\ run[v][j].step >= 0

\* The holder of job j stalled past the lock duration without finishing.
HolderStalled(j) == job[j].state = "active" /\ ~Locked(j) /\ job[j].stalledCounter = 0

\* C10: a job whose holder stalled past the lock duration is taken again and
\* completed (unless its later holder stalls too).
C10_LeaseReclaim ==
    \A j \in JIds :
        [](HolderStalled(j) /\ job[j].pat = "S"
             => <>(Finished(j) \/ job[j].stalledCounter > MaxStalledCount))

\* The job was completed by a worker while the lock of another had run out.
C10_Witness ==
    \E j \in JIds : \E w \in Workers :
        /\ job[j].stalledCounter = 1
        /\ Finished(j)
        /\ job[j].returnvalue # w
        /\ ~Running(w)

\* ------------------------------------------------------ backend equivalence
\* Terminal state of a booking on each backend, "" while it has none, and
\* the pipeline attempts made on it there.
LeaseOutcome(j) ==
    IF Finished(j) THEN "completed"
    ELSE IF job[j].state = "failed" THEN "dead-lettered" ELSE ""

StreamOutcome(e) ==
    IF sDone[e] THEN "completed"
    ELSE IF StreamDlqOf(e) # {} /\ e \notin Pending THEN "dead-lettered" ELSE ""

KafkaOutcome(m) ==
    IF kDone[m] THEN "completed"
    ELSE IF KafkaDlqOf(m) # {} THEN "dead-lettered" ELSE ""

Agree(o1, n1, o2, n2) == (o1 # "" /\ o2 # "") => (o1 = o2 /\ n1 = n2)

\* C5: a booking that is terminal on two backends has the same terminal
\* state on both, reached after the same number of pipeline attempts.
C5_BackendEquivalence ==
    \A i \in 1..Len(bookings) :
        LET b == bookings[i]
        IN  (b.bullmq # 0 /\ b.redisStreams # 0 /\ b.kafka # 0)
            => /\ Agree(LeaseOutcome(b.bullmq), job[b.bullmq].delivered,
                        StreamOutcome(b.redisStreams), sRuns[b.redisStreams])
               /\ Agree(LeaseOutcome(b.bullmq), job[b.bullmq].delivered,
                        KafkaOutcome(b.kafka), kRuns[b.kafka])
               /\ Agree(StreamOutcome(b.redisStreams), sRuns[b.redisStreams],
                        KafkaOutcome(b.kafka), kRuns[b.kafka])

\* ------------------------------------------------------ append-log claims
\* The five steps ran to the end on entry e in some run.
StreamRan(e) ==
    /\ e <= Len(stream)
    /\ JSONParseOk(FieldOf(stream[e].fields, "data"))
    /\ \E k \in 1..sRuns[e] : Outcome(stream[e].pat, k)

\* C11: a pending entry that has been idle beyond the threshold is claimed
\* by a scanning consumer (which resets its idle time) or acknowledged,
\* whichever consumer owns it.
C11_ReclaimAnyOwner ==
    \A e \in Ids : [](e \in Pending /\ pel[e].idle => <>(e \notin Pending \/ ~pel[e].idle))

\* C12: a delivered entry is out of the pending list only after a run on it
\* succeeded or a dead-letter record of it was published; an entry whose
\* runs all failed below the maximum is pending and has no such record.
C12_AckDiscipline ==
    \A e \in 1..lastId :
        /\ e \notin Pending => StreamRan(e) \/ InStreamDlq(e)
        /\ (sRuns[e] >= 1 /\ ~StreamRan(e) /\ WillRetry(stream[e].fields))
              => e \in Pending /\ ~InStreamDlq(e)

\* A run on the entry failed below the maximum and the loop went on.
C12_Witness ==
    \E e \in 1..lastId :
        /\ sRuns[e] >= 1 /\ ~StreamRan(e) /\ WillRetry(stream[e].fields)
        /\ ~InBatch(e)
        /\ \E d \in 1..lastId : d # e /\ d \notin Pending /\ InStreamDlq(d)

\* C13 (append log): no entry both ran its five steps to the end and has a
\* dead-letter record.
C13_OneTerminalOutcome ==
    /\ \A e \in Ids : ~(StreamRan(e) /\ InStreamDlq(e))
    /\ \A m \in KIds : ~(kDone[m] /\ KafkaDlqOf(m) # {})

\* -------------------------------------------------- partitioned-log claims
\* C14: two messages published with the same bookingId are in the same
\* partition, the one given by the last hex digit of the bookingId mod 3.
C14_PartitionDeterminism ==
    \A x \in Logged :
        LET b == MessageAt(x).bookingId
        IN  b # <<>> =>
              /\ x[1] = HexDigit(b[Len(b)]) % NumPartitions
              /\ \A y \in Logged : MessageAt(y).bookingId = b => y[1] = x[1]

\* Two messages with one bookingId were published.
C14_Witness ==
    \E x, y \in Logged :
        /\ x # y
        /\ MessageAt(x).bookingId # <<>>
        /\ MessageAt(x).bookingId = MessageAt(y).bookingId

\* A message of which the group has neither a successful run nor a
\* dead-letter record.
Unsettled(x) == ~kDone[MessageAt(x).id] /\ KafkaDlqOf(MessageAt(x).id) = {}

Committed(x) == x[2] < committed[x[1]]

InHandler(w) == kst[w].pc # "idle"

Blocked(p, o) ==
    /\ o + 1 < Len(klog[p])
    /\ klog[p][o + 1].pat = "FFF"
    /\ ~(kRuns[klog[p][o + 2].id] >= 1 /\ pos[p] > o)

C18_NoSilentLoss ==
    \A x \in Logged : Committed(x) => ~Unsettled(x)

\* ------------------------------------------------------- processor claims
\* The progress values run w on job j has reported so far.
Reported(w, j) == SubSeq(ProgressSeq, 1, run[w][j].step)

\* The five steps of the run are over (each follows an updateProgress call,
\* and updateProgress(100) follows the fifth).
AllStepsDone(w, j) == run[w][j].step = Len(ProgressSeq)

C20_IdempotentResult ==
    \A r1, r2 \in results :
        r1.jobId = r2.jobId
           => r1.result.confirmationNumber = r2.result.confirmationNumber

\* ------------------------------------------------- error-handling claims
\* JSON.parse(messageData.data) throws on entry e: the data field is missing
\* or is not a JSON document.
Malformed(e) ==
    /\ e <= Len(stream)
    /\ ~JSONParseOk(FieldOf(stream[e].fields, "data"))

\* C21: an entry with a malformed payload that a worker has run once and
\* moved on from has a dead-letter record and is out of the pending list,
\* after that one run, whatever its retry count.
C21_TerminalImmediateDlq ==
    \A e \in Ids :
        (Malformed(e) /\ sRuns[e] >= 1 /\ ~InBatch(e))
           => InStreamDlq(e) /\ e \notin Pending /\ sRuns[e] = 1

\* The enqueue of booking b on a backend was made: the backend has the
\* record with the id the response reports.
Enqueued(backend, id) ==
    CASE backend = "bullmq"       -> id \in JIds /\ job[id].state # "none"
      [] backend = "redisStreams" -> id \in 1..Len(stream)
      [] backend = "kafka"        -> \E x \in Logged : MessageAt(x).id = id

\* C22: whichever enqueues fail, the create-booking response is a 201 with
\* the booking id; each backend whose post did not fail is reported 'queued'
\* with the id of the record that is in the backend, each backend whose post
\* failed is reported 'error' with the message, and what is reported for one
\* backend depends on that backend's post alone.
C22_PartialFailureReported ==
    \A i \in 1..Len(bookings) :
        LET b == bookings[i]
        IN  /\ b.status = 201
            /\ b.bookingId # <<>>
            /\ \A k \in Backends :
                  IF k \in b.failed
                  THEN b.queues[k] = [status |-> "error", id |-> 0, error |-> AxiosError]
                  ELSE /\ b.queues[k].status = "queued"
                       /\ b.queues[k].error = ""
                       /\ Enqueued(k, b.queues[k].id)

\* A booking was created with one post failing and the other two queued.
C22_Witness ==
    \E i \in 1..Len(bookings) :
        /\ bookings[i].failed = {"redisStreams"}
        /\ bookings[i].queues["bullmq"].status = "queued"
        /\ bookings[i].queues["kafka"].status = "queued"
        /\ bookings[i].queues["redisStreams"].status = "error"

\* ------------------------------------------------------- gateway claims
\* The gateway with the lease queue: bookings are created, their jobs run,
\* and the status of any id is asked for.
NextStatus ==
    \/ \E b \in BookingIds, pat \in {"S", "FFF"}, failed \in SUBSET Backends :
          createBookings(b, pat, failed)
    \/ \E j \in JIds :
          Acquire(1, j) \/ updateProgress(1, j) \/ Complete(1, j) \/ Fail(1, j)
    \/ \E j \in JIds : Promote(j)
    \/ \E id \in StatusIds, down \in SUBSET Backends : getBookingStatus(id, down)

SpecStatus == Init /\ [][NextStatus]_vars

\* A backend has a record under the id.
HasRecord(backend, id) ==
    CASE backend = "bullmq"       -> JobStatus(id) # Null
      [] backend = "redisStreams" -> StreamMessageStatus(id) # Null
      [] backend = "kafka"        -> KafkaMessageStatus(id) # Null

\* C23: every booking-status request is answered 200, whatever the id and
\* whichever services are down; the status of a backend is null exactly when
\* that backend is down or has no record for the id, and is the backend's
\* record otherwise, whatever happened to the other two requests.
C23_AbsentStatusReported ==
    [][statuses' # statuses =>
          LET r == statuses'[1]
          IN  /\ r.status = 200
              /\ \A k \in Backends :
                    r[k] = Null <=> (k \in r.down \/ ~HasRecord(k, r.bookingId))
              /\ "bullmq" \notin r.down => r.bullmq = JobStatus(r.bookingId)]_vars

\* A status was returned with the record of one backend, null for a backend
\* that is down and null for a backend that has no record.
C23_Witness ==
    /\ statuses # <<>>
    /\ statuses[1].down = {"kafka"}
    /\ statuses[1].bullmq # Null
    /\ statuses[1].redisStreams = Null
    /\ statuses[1].kafka = Null

\* ------------------------------------------------------ loop-error claims
\* One worker with its stream loop and its Kafka consumer, every broker
\* call of the two loops may throw; no process goes down.
NextLoops ==
    \/ \E k \in PostKinds : StreamPost(k[1], k[2])
    \/ \E f \in UNION {ForeignFields(e) : e \in Ids} : ForeignXadd(f)
    \/ \E s \in Slots : StreamStep(<<1, s>>)
    \/ \E s \in Slots : xackThrows(<<1, s>>)
    \/ \E s \in Slots : xaddThrows(<<1, s>>)
    \/ \E s \in Slots : dlqackThrows(<<1, s>>)
    \/ \E s \in Slots : xreadgroupThrows(<<1, s>>)
    \/ \E s \in Slots : xpendingThrows(<<1, s>>)
    \/ \E s \in Slots : xclaimThrows(<<1, s>>)
    \/ \E e \in Ids : Tick(e)
    \/ KafkaPost(<<"b", "f">>, "FFF")
    \/ KafkaStep(1)
    \/ \E p \in Partitions : kCommit(p)

\* The timer keeps firing, every awaited call returns or throws, time
\* passes, the consumer keeps being handed messages.
FairLoops ==
    /\ \A s \in Slots : WF_vars(StreamStep(<<1, s>>))
    /\ \A e \in Ids : WF_vars(Tick(e))
    /\ WF_vars(KafkaStep(1))

SpecLoopsFair == Init /\ [][NextLoops]_vars /\ FairLoops

\* C24: no exception of a broker call or of processing leaves a callback of
\* the stream loop or the Kafka handler unhandled, the process stays up, and
\* after it the timer callback and the handler are entered again and again.
C24_LoopErrorsContained ==
    /\ [](\A t \in Threads : st[t].pc # "unhandled")
    /\ [](up[1] /\ exitCode[1] = -1)
    /\ \A s \in Slots : []<>(st[<<1, s>>].pc = "idle") /\ []<>(st[<<1, s>>].pc = "xreadgroup")
    /\ []<>(kst[1].pc = "idle")

\* The acknowledge after the dead-letter XADD threw (the record is there,
\* the entry is still pending) and the callback came to its end.
C24_Witness ==
    /\ faults = MaxFaults
    /\ \E e \in Ids : InStreamDlq(e) /\ e \in Pending /\ ~InBatch(e)
    /\ \A s \in Slots : st[<<1, s>>].pc = "idle"

\* --------------------------------------------------------- startup claims
\* The lease queue with processes that go down and are started again,
\* also while a broker cannot be reached.
NextStartup ==
    \/ NextLease
    \/ \E w \in Workers, reach \in SUBSET Brokers : start(w, reach)

SpecStartup == Init /\ [][NextStartup]_vars

\* C25: a worker process exits with code 1 while starting only if it could
\* connect to none of the brokers.
C25_StartupFatalOnlyIfNone ==
    \A w \in Workers : exitCode[w] = 1 => reachable[w] = {}

\* -------------------------------------------------------- shutdown claims
\* One worker with its three loops, one booking on the three backends, and
\* the shutdown signal.
ShutdownStep ==
    \/ \E j \in JIds :
          Acquire(1, j) \/ updateProgress(1, j) \/ Complete(1, j) \/ Fail(1, j)
    \/ \E s \in Slots :
          \/ Timer(<<1, s>>) \/ xreadgroup(<<1, s>>) \/ forMessage(<<1, s>>)
          \/ xack(<<1, s>>) \/ catch(<<1, s>>) \/ xpending(<<1, s>>) \/ scan(<<1, s>>)
    \/ \E p \in Partitions : kFetch(1, p)
    \/ eachMessage(1) \/ dlqSend(1) \/ kReturn(1)
    \/ closeResolves(1)
    \/ exit(1)

NextShutdown ==
    \/ \E pat \in {"S", "FFF"} : createBookings(<<"b", "f">>, pat, {})
    \/ ShutdownStep
    \/ \E j \in JIds : Promote(j)
    \/ \E p \in Partitions : kCommit(p)
    \/ Rebalance
    \/ SIGTERM(1)

\* Every awaited call of the worker returns, the timer keeps firing.
SpecShutdownFair == Init /\ [][NextShutdown]_vars /\ WF_vars(ShutdownStep)

\* C26: once the SIGTERM handler of a worker runs, the worker takes no new
\* job, enters no new XREADGROUP and no new XPENDING, is handed no new
\* Kafka message, and when it exits no job, stream entry or Kafka message it
\* took is in progress.
C26_GracefulShutdown ==
    [][\A w \in Workers :
          /\ (up[w] /\ shutdown[w] # "no") =>
                /\ \A j \in JIds : run[w][j] = NoRun => run'[w][j] = NoRun
                /\ \A s \in Slots :
                      /\ st[<<w, s>>].pc = "idle" => st'[<<w, s>>].pc = "idle"
                      /\ st'[<<w, s>>].pc = "xpending" => st[<<w, s>>].pc = "xpending"
                /\ kst[w].pc = "idle" => kst'[w].pc = "idle"
          /\ (up[w] /\ ~up'[w] /\ exitCode'[w] = 0) =>
                /\ \A j \in JIds : run[w][j] = NoRun
                /\ \A s \in Slots : st[<<w, s>>].batch = <<>>
                /\ kst[w].pc = "idle"]_vars

\* ------------------------------------------------------- retention claims
\* C28: a job created through the gateway that is completed or failed is
\* still in the queue: GET /jobs/:jobId finds it and returns its terminal
\* state, its attempts and, when failed, the failure reason.
C28_TerminalJobsObservable ==
    \A i \in 1..Len(bookings) :
        LET j == bookings[i].bullmq
        IN  (j # 0 /\ job[j].state \in {"completed", "failed"}) =>
               LET r == JobStatus([kind |-> "jobId", n |-> j])
               IN  /\ r # Null
                   /\ r.state = job[j].state
                   /\ r.attemptsMade = job[j].attemptsMade
                   /\ job[j].state = "failed" => r.failedReason # ""

\* --------------------------------------------------------- backoff claims
\* C29 as stated: the delay of a job that waits for its retry after failed
\* attempt k (its attemptsMade) is base * 2^k.
C29_BackoffBaseTimes2PowK ==
    \A j \in JIds :
        job[j].state = "delayed" => job[j].delay = BackoffDelay * (2 ^ job[j].attemptsMade)

\* C29, amended: the delay after failed attempt k is base * 2^(k - 1), the
\* base after the first failure and twice the base after the second, and a
\* job that waits for its retry is not delivered before the delay is over.
C29_BackoffDoubles ==
    /\ [](\A j \in JIds :
            job[j].state = "delayed" =>
               /\ job[j].attemptsMade >= 1
               /\ job[j].delay = BackoffDelay * (2 ^ (job[j].attemptsMade - 1))
               /\ job[j].attemptsMade = 1 => job[j].delay = BackoffDelay
               /\ job[j].attemptsMade = 2 => job[j].delay = 2 * BackoffDelay)
    /\ [][\A j \in JIds :
            job[j].state = "delayed" =>
               /\ job'[j].delivered = job[j].delivered
               /\ job'[j].state \in {"delayed", "wait"}
               /\ job'[j].state = "wait" => job'[j].delay = 0]_vars

\* A job waits for its third delivery with twice the base delay.
C29_Witness ==
    \E j \in JIds :
        /\ job[j].state = "delayed"
        /\ job[j].attemptsMade = 2
        /\ job[j].delay = 2 * BackoffDelay

\* ---------------------------------------------------- entry state machine
\* The state of entry e of booking-stream for group booking-workers: in
\* the pending list, or out of it before any run (new), with a dead-letter
\* record, or without one.
EntryState(e) ==
    IF e \in Pending THEN "pending"
    ELSE IF sRuns[e] = 0 THEN "new"
    ELSE IF InStreamDlq(e) THEN "dead-lettered"
    ELSE "acknowledged"

\* C30: an entry goes from new to pending, stays pending (a claim included)
\* or goes from pending to acknowledged or to dead-lettered, and once it is
\* acknowledged or dead-lettered it stays so: it is in no pending list and in
\* no batch again, and no run is started on it.
C30_EntryStateMachine ==
    [][\A e \in Ids :
          LET old == EntryState(e)
              new == EntryState(e)'
          IN  /\ old = "new" => new \in {"new", "pending"}
              /\ old = "pending" => new \in {"pending", "acknowledged", "dead-lettered"}
              /\ old \in {"acknowledged", "dead-lettered"} =>
                    /\ new = old
                    /\ pel'[e] = NoPel
                    /\ sRuns'[e] = sRuns[e]
                    /\ \A t \in Threads : \A i \in 1..Len(st'[t].batch) :
                          st'[t].batch[i] # e]_vars

\* One entry is acknowledged, another is dead-lettered, and a worker reads on.
C30_Witness ==
    /\ \E e, d \in Ids : EntryState(e) = "acknowledged" /\ EntryState(d) = "dead-lettered"
    /\ \E t \in Threads : st[t].pc = "xreadgroup"

\* ------------------------------------------------------------------- C27
\* A burst on worker 1: more jobs wait in booking-queue than the worker may
\* run or take.  Jobs wait in the order they were added and the worker
\* takes the one at the head; the jobs of JIds run their steps and may
\* succeed, the other jobs of the burst are over when a step of theirs throws.
Waiting == {j \in BurstIds : job[j].state = "wait"}

NextBurst ==
    \/ \E pat \in {"S", "FFF"} :
          /\ pat = "S" => Added < MaxJobs
          /\ QueueBurst(GatewayOptions, pat)
    \/ \E j \in Waiting : (\A i \in Waiting : j <= i) /\ Acquire(1, j)
    \/ \E j \in JIds : updateProgress(1, j)
    \/ \E j \in JIds : Complete(1, j)
    \/ \E j \in BurstIds : Fail(1, j)
    \/ limiterExpire

SpecBurst == Init /\ [][NextBurst]_vars

\* C27: a worker process never runs more than 5 jobs of booking-queue at
\* once, and never takes more than 10 jobs within one window of the rate
\* limiter.
C27_BoundedConcurrency ==
    /\ \A w \in Workers : Cardinality(InFlight(w)) <= Concurrency
    /\ window <= LimiterMax

\* Both limits hold a job back: ten jobs were taken in the window, five of
\* them are still running, and an eleventh waits.
C27_Witness ==
    /\ Cardinality(InFlight(1)) = Concurrency
    /\ window = LimiterMax
    /\ Waiting # {}

\* ------------------------------------------------------------------- C31
\* The callbacks that have entry e in the batch they are working through.
Handling(e) == {t \in Threads : \E i \in 1..Len(st[t].batch) : st[t].batch[i] = e}

\* C31: no entry of booking-stream is in the batch of two consumers of the
\* group at the same time, whatever the workers read, scan and claim.
C31_SingleConsumerPerEntry ==
    \A e \in Ids : Cardinality(Handling(e)) <= 1

\* Two workers work through a batch each while one of the entries is
\* pending and idle beyond the threshold.
C31_Witness ==
    \E t, u \in Threads :
        /\ t[1] # u[1]
        /\ st[t].batch # <<>>
        /\ st[u].batch # <<>>
        /\ \E e \in Pending : pel[e].idle

\* ------------------------------------------------------------------- C32
\* The state a worker brought a message to: all five steps ran and it was
\* acknowledged (its handler returned), or it was written to the dead-letter
\* stream or topic.
StreamTerminal(e) ==
    IF sDone[e] THEN "completed"
    ELSE IF InStreamDlq(e) /\ e \notin Pending THEN "dead-lettered"
    ELSE ""
KafkaTerminal(m) ==
    IF kDone[m] THEN "completed"
    ELSE IF KafkaDlqOf(m) # {} THEN "dead-lettered"
    ELSE ""

\* C32: once a worker has completed or dead-lettered a message of
\* booking-stream or booking-events, the status read of that backend for
\* the message reports that state.
C32_StatusReflectsState ==
    /\ \A e \in Ids :
          LET s == StreamMessageStatus([kind |-> "streamMessageId", n |-> e])
          IN  (StreamTerminal(e) # "" /\ s # Null) => s.status = StreamTerminal(e)
    /\ \A m \in KIds :
          LET s == KafkaMessageStatus([kind |-> "kafkaMessageId", n |-> m])
          IN  (KafkaTerminal(m) # "" /\ s # Null) => s.status = KafkaTerminal(m)

\* ------------------------------------------------------------------- C33
\* C33: the read that follows a claim returns an entry that was pending
\* under the worker's name before it (the entry just claimed is one), so
\* that the worker runs the pipeline on it in that iteration.
C33_ClaimLeadsToReprocessing ==
    [][\A t \in Threads :
          (st[t].pc = "xreadgroup" /\ st[t].ret = "scan" /\ st'[t].pc \in {"msg", "scan"})
          => \E i \in 1..Len(st'[t].batch) :
                LET e == st'[t].batch[i]
                IN  e \in Pending /\ pel[e].owner = cname[t[1]]]_vars

\* ------------------------------------------------------------------- C34
\* One worker whose timer fires every 2000 ms: a callback is entered while
\* the one before it awaits a read, a step of the pipeline or the scan.
NextOverlap ==
    \/ \E k \in PostKinds : StreamPost(k[1], k[2])
    \/ \E t \in Callbacks : t[1] = 1 /\ StreamStep(t)
    \/ \E e \in Ids : Tick(e)

SpecOverlap == Init /\ [][NextOverlap]_vars

\* The timer callbacks of worker w that have not returned.
InProgress(w) == {t \in Callbacks : t[1] = w /\ st[t].pc # "idle"}

\* C34: at most one timer callback (read, process, scan) of a worker is in
\* progress at any time.
C34_IterationsNeverOverlap ==
    \A w \in Workers : Cardinality(InProgress(w)) <= 1

\* ------------------------------------------------------------------- C35
\* C35: while the process is up, an entry leaves the batch a read returned
\* only as the entry at its head, after the pipeline was run on it: nothing
\* that happens to one entry makes the loop skip the entries behind it.
C35_BatchIsolation ==
    [][\A t \in Threads :
          (st[t].batch # <<>> /\ st'[t].batch # st[t].batch /\ st'[t].pc # "idle")
          => /\ st'[t].batch = Tail(st[t].batch)
             /\ st[t].pc \in {"xack", "catch", "dlqack"}]_vars

\* ------------------------------------------------------------------- C36
\* A backlog: bookings whose run fails are appended, the timer of worker 2
\* fires when nine or more of them wait, worker 2 reads them and goes down
\* before the timer of worker 1 fires for the first time; worker 1 reads
\* the rest, and its timer keeps firing.
ScanStep(t) ==
    \/ Timer(t)
    \/ xreadgroup(t)
    \/ forMessage(t)
    \/ catch(t)
    \/ xpending(t)
    \/ scan(t)

NextBacklog ==
    \/ StreamBacklog("booking", "FFF")
    \/ Len(stream) >= PendingCount - 1 /\ Timer(<<2, 1>>)
    \/ xreadgroup(<<2, 1>>)
    \/ st[<<2, 1>>].batch # <<>> /\ Crash(2)
    \/ ~up[2] /\ ScanStep(<<1, 1>>)
    \/ TickAll

SpecBacklogFair ==
    /\ Init /\ [][NextBacklog]_vars
    /\ WF_vars(~up[2] /\ ScanStep(<<1, 1>>)) /\ WF_vars(TickAll)

\* C36: an entry pending under the scanning worker's name and idle beyond
\* the threshold is eventually claimed by that worker's pending scan (its
\* idle time starts again), whatever else is in the pending list.
C36_ScanStarvationFree ==
    \A e \in BacklogIds :
        (e \in Pending /\ pel[e].owner = cname[1] /\ pel[e].idle) ~> ~pel[e].idle

\* ------------------------------------------------------------------- C37
\* The kafka service alone, asked to publish bookings whose bookingId is
\* any string of up to two of these characters ("" is no bookingId).
BookingStrings ==
    LET Chars == {"0", "7", "a", "f", "g", "-"}
    IN  {<<>>} \cup {<<c>> : c \in Chars} \cup {<<c, d>> : c \in Chars, d \in Chars}

NextPartition ==
    \E b \in BookingStrings, pat \in {"S", "FFF"} : KafkaPost(b, pat)

SpecPartition == Init /\ [][NextPartition]_vars

\* C37: in every state in which the kafka service takes a publish request,
\* the partition it chooses for the request is 0, 1 or 2, whatever the
\* bookingId of the request, and without one.
C37_PartitionInRange ==
    \A b \in BookingStrings :
        Published < MaxMsgs => PartitionsOf(b) \subseteq Partitions

\* ------------------------------------------------------------------- C38
\* The id under which a backend keeps the record of what the gateway sent
\* it for booking b: the jobId or messageId the service made up.
RecordId(backend, b) ==
    [kind |-> CASE backend = "bullmq"       -> "jobId"
                [] backend = "redisStreams" -> "streamMessageId"
                [] backend = "kafka"        -> "kafkaMessageId",
     n    |-> b[backend]]

\* C38: a status query with the bookingId of a created booking returns,
\* for every backend that took the booking, is up and still has its record,
\* that record and not null.
C38_BookingsTrackable ==
    [][statuses' # statuses =>
          LET r == statuses'[1]
          IN  (r.bookingId.kind = "bookingId" /\ r.bookingId.n <= Len(bookings)) =>
                 LET b == bookings[r.bookingId.n]
                 IN  \A k \in Backends :
                        (k \notin b.failed /\ k \notin r.down /\ HasRecord(k, RecordId(k, b)))
                        => r[k] # Null]_vars

\* ---------------------------------------------------- C39: late subscription
\* booking-events with producers that may publish before any worker process
\* was started.  Every process is started at some time and stays up; the
\* consumers keep taking steps, the group completes its rebalances and
\* offsets get committed.
NextSubscribe ==
    \/ \E b \in BookingIds, pat \in {"S", "FFF"} : KafkaPost(b, pat)
    \/ \E w \in Workers : Restart(w)
    \/ Rebalance
    \/ \E w \in Workers : KafkaStep(w)
    \/ \E p \in Partitions : kCommit(p)

SpecSubscribeFair ==
    /\ InitUnsubscribed /\ [][NextSubscribe]_vars
    /\ \A w \in Workers : WF_vars(Restart(w)) /\ WF_vars(KafkaStep(w))
    /\ \A p \in Partitions : WF_vars(kCommit(p))
    /\ WF_vars(Rebalance)

\* C39: every message published to booking-events is eventually handed to
\* eachMessage by a member of booking-workers, also when it was published
\* before the first worker subscribed.
C39_NoMessageSkipped ==
    \A m \in KIds : (m <= Published) ~> (kRuns[m] > 0)

====
